---- MODULE Spec2Model ----
(***************************************************************************)
(* Model of presentrs (src/src/main.rs): the markdown-to-slides builder    *)
(* parse_markdown_to_slides, consumed one pulldown-cmark event per step,   *)
(* and the App cursor operations that navigate the finished deck.          *)
(*                                                                         *)
(* Strings are sequences of characters.  A character is a one-element      *)
(* string; "W" stands for a wide (CJK) character, which is one char for    *)
(* chars().count() and two columns for UnicodeWidthStr::width.  "\n" is    *)
(* the line terminator.  The box drawing characters are written with ASCII *)
(* names ("tl" for the top-left corner, "-" for the horizontal bar ...).   *)
(***************************************************************************)
EXTENDS Integers, Sequences, FiniteSets, TLC

VARIABLES
    \* ---- parse_markdown_to_slides locals (main.rs 214-229) ----
    slides, current_slide_lines, current_line_spans,
    in_heading, heading_level, in_strong, in_emphasis,
    in_code_block, code_block_lang, code_block_content,
    in_table, in_list, table_rows, current_table_row, current_cell_content,
    in_table_header,
    terminal_width,
    \* ---- App cursor (main.rs 73-84) ----
    current_slide, scroll_offset,
    \* ---- the event stream handed over by the tokenizer ----
    toks,       \* events consumed so far, in order (the input read so far)
    ctx,        \* tags the tokenizer has opened and not yet closed
    tcols,      \* cells of the header of the table being tokenized
    tcell,      \* cells already closed in the table row being tokenized
    used,       \* start and leaf events consumed so far
    limit,      \* bound on `used` for this run
    pc,         \* "parse" while events are consumed, "present" once App::new returned
    op          \* the last App operation called ("none" before the first)

parser == <<slides, current_slide_lines, current_line_spans,
            in_heading, heading_level, in_strong, in_emphasis,
            in_code_block, code_block_lang, code_block_content,
            in_table, in_list, table_rows, current_table_row,
            current_cell_content, in_table_header>>
cursor == <<current_slide, scroll_offset>>
stream == <<toks, ctx, tcols, tcell, used>>
vars == <<parser, terminal_width, cursor, stream, limit, pc, op>>

(***************************************************************************)
(* Bounds of the model.                                                    *)
(***************************************************************************)
MaxTok == 4        \* start and leaf events of a stream, streams of every kind
MaxTokApp == 8     \* ... streams of headings and paragraphs, then presented
MaxTokHeading == 6 \* ... streams of headings
MaxTokCode == 6    \* ... streams of code blocks
MaxTokTable == 5   \* ... streams of tables
MaxTokInline == 5  \* ... streams of headings and paragraphs with strong and emphasis
MaxTokLive == 6    \* ... streams of headings and paragraphs, presented with a held key
MaxWidth == 6      \* largest terminal width tried for centering
MaxCols == 2       \* largest number of columns of a table

(***************************************************************************)
(* Styles, runs (Span), lines (Line), slides (Text).                       *)
(***************************************************************************)
Style(fg, bg, bold, italic) == [fg |-> fg, bg |-> bg, bold |-> bold, italic |-> italic]
StyleDefault == Style("None", "None", FALSE, FALSE)
Fg(c) == Style(c, "None", FALSE, FALSE)
\* src = index in the stream of the event the run was built from (for the lines
\* of a code block or a table: the block's end event), 0 for a run the builder
\* makes up itself (padding, placeholder).
Span(content, style, src) == [content |-> content, style |-> style, src |-> src]

\* the lines a block end emits, their runs marked as built from event e
built_from(lines, e) ==
    [i \in 1..Len(lines) |-> [r \in 1..Len(lines[i]) |-> [lines[i][r] EXCEPT !.src = e]]]

Rep(c, n) == [i \in 1..n |-> c]

PlaceholderText ==
    <<"N","o"," ","s","l","i","d","e","s"," ","f","o","u","n","d"," ",
      "i","n"," ","m","a","r","k","d","o","w","n"," ","f","i","l","e">>
\* Text::from(&str): one line holding one raw span
PlaceholderSlide == << << Span(PlaceholderText, StyleDefault, 0) >> >>

RECURSIVE SumSeq(_)
SumSeq(s) == IF s = <<>> THEN 0 ELSE Head(s) + SumSeq(Tail(s))

RECURSIVE Concat(_)
Concat(ss) == IF ss = <<>> THEN <<>> ELSE Head(ss) \o Concat(Tail(ss))

MaxOf(S) == IF S = {} THEN 0 ELSE CHOOSE m \in S : \A x \in S : x <= m

\* unicode_width: columns of one character, of a string
CharWidth(c) == IF c = "W" THEN 2 ELSE 1
Width(s) == SumSeq([i \in 1..Len(s) |-> CharWidth(s[i])])
\* str::chars().count()
CharsCount(s) == Len(s)

(***************************************************************************)
(* The three closures of parse_markdown_to_slides.                         *)
(***************************************************************************)
text_width(spans) == SumSeq([i \in 1..Len(spans) |-> CharsCount(spans[i].content)])

padding(spans) ==
    IF terminal_width > text_width(spans)
    THEN (terminal_width - text_width(spans)) \div 2
    ELSE 0

centered(spans) ==
    IF padding(spans) > 0
    THEN <<Span(Rep(" ", padding(spans)), StyleDefault, 0)>> \o spans
    ELSE spans

\* the new `lines`; `spans` is left empty in every case (mem::take)
push_current_line(lines, spans, is_h1) ==
    IF spans # <<>>
    THEN Append(lines, IF is_h1 THEN centered(spans) ELSE spans)
    ELSE lines

\* faulty variant: the spacing line pushed without the is_empty test
add_spacing_always(lines) == Append(lines, <<>>)
add_spacing(lines) == IF lines # <<>> THEN Append(lines, <<>>) ELSE lines

\* the new `slides`; `lines` is left empty in every case (mem::take)
finish_slide(sl, lines) == IF lines # <<>> THEN Append(sl, lines) ELSE sl

(***************************************************************************)
(* The event stream.  An event is [k: kind, s: string argument, n: level]. *)
(***************************************************************************)
Tok(k, s, n) == [k |-> k, s |-> s, n |-> n]
Top == IF ctx = <<>> THEN "Doc" ELSE ctx[Len(ctx)]
LastK == IF toks = <<>> THEN "None" ELSE toks[Len(toks)].k
Pop == SubSeq(ctx, 1, Len(ctx) - 1)
Here == Len(toks) + 1     \* index of the event being consumed

Breaks == {"SoftBreak", "HardBreak"}
BlockPos == Top \in {"Doc", "ItemT", "ItemL"}
InlinePos == Top \in {"H", "P", "Strong", "Em", "Cell", "ItemT"}
CanOpen == pc = "parse" /\ used < limit

\* a start or leaf event
Open(tok, tag) ==
    /\ toks' = Append(toks, tok)
    /\ ctx' = IF tag = "" THEN ctx ELSE Append(ctx, tag)
    /\ used' = used + 1
\* an end event
Close(tok) ==
    /\ toks' = Append(toks, tok)
    /\ ctx' = Pop
    /\ used' = used

\* texts the tokenizer hands over, by the place they occur in
Texts == {<<"a">>}
HeadingTexts == {<<"a">>, <<"W">>}
CellTexts == {<<"a">>, <<"W">>, <<" ">>}
CodeTexts == {<<"a">>, <<"W">>, <<"\n">>}
CodeSpans == {<<"c">>}
TextsAt(top) ==
    CASE top = "H" -> HeadingTexts
      [] top = "Cell" -> CellTexts
      [] top = "CodeBlock" -> CodeTexts
      [] OTHER -> Texts


hvars == <<in_heading, heading_level>>
svars == <<in_strong, in_emphasis>>
cvars == <<in_code_block, code_block_lang, code_block_content>>
tvars == <<in_table, table_rows, current_table_row, current_cell_content, in_table_header>>
tcnt == <<tcols, tcell>>
rest == <<terminal_width, cursor, limit, pc, op>>

(***************************************************************************)
(* Headings (main.rs 270-290).                                             *)
(***************************************************************************)
\* faulty variant: the H1 arm without the slide split (the arm of the other levels)
Start_Heading_H1_keeps_slide ==
    /\ CanOpen /\ BlockPos
    /\ Open(Tok("StartH", <<>>, 1), "H")
    /\ current_slide_lines' = push_current_line(current_slide_lines, current_line_spans, FALSE)
    /\ current_line_spans' = <<>>
    /\ in_heading' = TRUE
    /\ heading_level' = 1
    /\ UNCHANGED <<slides, svars, cvars, tvars, in_list, tcnt, rest>>

Start_Heading_H1 ==
    /\ CanOpen /\ BlockPos
    /\ Open(Tok("StartH", <<>>, 1), "H")
    /\ LET lines == push_current_line(current_slide_lines, current_line_spans, FALSE) IN
         /\ slides' = IF lines # <<>> THEN finish_slide(slides, lines) ELSE slides
         /\ current_slide_lines' = <<>>
    /\ current_line_spans' = <<>>
    /\ in_heading' = TRUE
    /\ heading_level' = 1
    /\ UNCHANGED <<svars, cvars, tvars, in_list, tcnt, rest>>

Start_Heading(levels) ==
    /\ CanOpen /\ BlockPos
    /\ \E level \in levels :
         /\ Open(Tok("StartH", <<>>, level), "H")
         /\ heading_level' = level
    /\ current_slide_lines' = push_current_line(current_slide_lines, current_line_spans, FALSE)
    /\ current_line_spans' = <<>>
    /\ in_heading' = TRUE
    /\ UNCHANGED <<slides, svars, cvars, tvars, in_list, tcnt, rest>>

End_Heading ==
    /\ pc = "parse" /\ Top = "H" /\ LastK \notin Breaks
    /\ Close(Tok("EndH", <<>>, heading_level))
    /\ current_slide_lines' =
         add_spacing(push_current_line(current_slide_lines, current_line_spans,
                                       heading_level = 1))
    /\ current_line_spans' = <<>>
    /\ in_heading' = FALSE
    /\ UNCHANGED <<slides, heading_level, svars, cvars, tvars, in_list, tcnt, rest>>

(***************************************************************************)
(* Text (main.rs 291-322).                                                 *)
(***************************************************************************)
heading_style(level) ==
    CASE level = 1 -> Style("Cyan", "None", TRUE, FALSE)
      [] level = 2 -> Style("Blue", "None", TRUE, FALSE)
      [] level = 3 -> Style("Green", "None", TRUE, FALSE)
      [] OTHER -> Style("Yellow", "None", TRUE, FALSE)

\* faulty variant: the strong flag is tested before the heading flag
text_style_strong_first ==
    IF in_strong THEN Style("White", "None", TRUE, FALSE)
    ELSE IF in_heading THEN heading_style(heading_level)
    ELSE IF in_emphasis THEN Style("White", "None", FALSE, TRUE)
    ELSE Fg("White")

text_style ==
    IF in_heading THEN heading_style(heading_level)
    ELSE IF in_strong THEN Style("White", "None", TRUE, FALSE)
    ELSE IF in_emphasis THEN Style("White", "None", FALSE, TRUE)
    ELSE Fg("White")

Text ==
    /\ CanOpen /\ Top \in {"H", "P", "Strong", "Em", "Cell", "ItemT", "CodeBlock"}
    /\ \E t \in TextsAt(Top) :
         /\ Open(Tok("Text", t, 0), "")
         /\ IF in_code_block
            THEN /\ code_block_content' = code_block_content \o t
                 /\ UNCHANGED <<current_cell_content, current_line_spans>>
            ELSE IF in_table
            THEN /\ current_cell_content' = current_cell_content \o t
                 /\ UNCHANGED <<code_block_content, current_line_spans>>
            ELSE /\ current_line_spans' = Append(current_line_spans, Span(t, text_style, Here))
                 /\ UNCHANGED <<code_block_content, current_cell_content>>
    /\ UNCHANGED <<slides, current_slide_lines, hvars, svars, in_code_block, code_block_lang,
                   in_table, table_rows, current_table_row, in_table_header, in_list,
                   tcnt, rest>>

(***************************************************************************)
(* Paragraphs, lists, items (main.rs 323-349).                             *)
(***************************************************************************)
Start_Paragraph ==
    /\ CanOpen /\ Top \in {"Doc", "ItemL"}
    /\ Open(Tok("StartP", <<>>, 0), "P")
    /\ current_slide_lines' =
         IF ~in_table
         THEN push_current_line(current_slide_lines, current_line_spans, FALSE)
         ELSE current_slide_lines
    /\ current_line_spans' = IF ~in_table THEN <<>> ELSE current_line_spans
    /\ UNCHANGED <<slides, hvars, svars, cvars, tvars, in_list, tcnt, rest>>

End_Paragraph ==
    /\ pc = "parse" /\ Top = "P" /\ LastK \notin ({"StartP"} \cup Breaks)
    /\ Close(Tok("EndP", <<>>, 0))
    /\ current_slide_lines' =
         IF ~in_table
         THEN add_spacing(push_current_line(current_slide_lines, current_line_spans, FALSE))
         ELSE current_slide_lines
    /\ current_line_spans' = IF ~in_table THEN <<>> ELSE current_line_spans
    /\ UNCHANGED <<slides, hvars, svars, cvars, tvars, in_list, tcnt, rest>>

Start_List ==
    /\ CanOpen /\ BlockPos
    /\ \E tag \in {"ListT", "ListL"} : Open(Tok("StartList", <<tag>>, 0), tag)
    /\ current_slide_lines' = push_current_line(current_slide_lines, current_line_spans, FALSE)
    /\ current_line_spans' = <<>>
    /\ in_list' = TRUE
    /\ UNCHANGED <<slides, hvars, svars, cvars, tvars, tcnt, rest>>

BulletText == <<"*", " ">>
Start_Item ==
    /\ CanOpen /\ Top \in {"ListT", "ListL"}
    /\ Open(Tok("StartItem", <<>>, 0), IF Top = "ListT" THEN "ItemT" ELSE "ItemL")
    /\ current_line_spans' = Append(current_line_spans, Span(BulletText, Fg("Yellow"), Here))
    /\ UNCHANGED <<slides, current_slide_lines, hvars, svars, cvars, tvars, in_list, tcnt, rest>>

End_Item ==
    /\ pc = "parse" /\ Top \in {"ItemT", "ItemL"} /\ LastK \notin Breaks
    /\ Close(Tok("EndItem", <<>>, 0))
    /\ current_slide_lines' = push_current_line(current_slide_lines, current_line_spans, FALSE)
    /\ current_line_spans' = <<>>
    /\ UNCHANGED <<slides, hvars, svars, cvars, tvars, in_list, tcnt, rest>>

End_List ==
    /\ pc = "parse" /\ Top \in {"ListT", "ListL"} /\ LastK = "EndItem"
    /\ Close(Tok("EndList", <<>>, 0))
    /\ current_slide_lines' = IF in_list THEN add_spacing(current_slide_lines)
                              ELSE current_slide_lines
    /\ in_list' = FALSE
    /\ UNCHANGED <<slides, current_line_spans, hvars, svars, cvars, tvars, tcnt, rest>>

(***************************************************************************)
(* Strong, emphasis, inline code (main.rs 350-371).                        *)
(***************************************************************************)
Start_Strong ==
    /\ CanOpen /\ InlinePos
    /\ Open(Tok("StartStrong", <<>>, 0), "Strong")
    /\ in_strong' = TRUE
    /\ UNCHANGED <<slides, current_slide_lines, current_line_spans, hvars, in_emphasis,
                   cvars, tvars, in_list, tcnt, rest>>

End_Strong ==
    /\ pc = "parse" /\ Top = "Strong" /\ LastK \notin ({"StartStrong"} \cup Breaks)
    /\ Close(Tok("EndStrong", <<>>, 0))
    /\ in_strong' = FALSE
    /\ UNCHANGED <<slides, current_slide_lines, current_line_spans, hvars, in_emphasis,
                   cvars, tvars, in_list, tcnt, rest>>

Start_Emphasis ==
    /\ CanOpen /\ InlinePos
    /\ Open(Tok("StartEm", <<>>, 0), "Em")
    /\ in_emphasis' = TRUE
    /\ UNCHANGED <<slides, current_slide_lines, current_line_spans, hvars, in_strong,
                   cvars, tvars, in_list, tcnt, rest>>

End_Emphasis ==
    /\ pc = "parse" /\ Top = "Em" /\ LastK \notin ({"StartEm"} \cup Breaks)
    /\ Close(Tok("EndEm", <<>>, 0))
    /\ in_emphasis' = FALSE
    /\ UNCHANGED <<slides, current_slide_lines, current_line_spans, hvars, in_strong,
                   cvars, tvars, in_list, tcnt, rest>>

\* format!: the code between two backquote characters (written "bq")
Backticked(code) == <<"bq">> \o code \o <<"bq">>
CodeStyle == Style("Green", "Rgb(40,40,40)", FALSE, FALSE)

\* faulty variant: inline code without the in_table test
Code_ignores_table ==
    /\ CanOpen /\ InlinePos
    /\ \E c \in CodeSpans :
         /\ Open(Tok("Code", c, 0), "")
         /\ current_line_spans' =
              Append(current_line_spans, Span(Backticked(c), CodeStyle, Here))
         /\ UNCHANGED current_cell_content
    /\ UNCHANGED <<slides, current_slide_lines, hvars, svars, cvars, in_table, table_rows,
                   current_table_row, in_table_header, in_list, tcnt, rest>>

Code ==
    /\ CanOpen /\ InlinePos
    /\ \E c \in CodeSpans :
         /\ Open(Tok("Code", c, 0), "")
         /\ IF in_table
            THEN /\ current_cell_content' = current_cell_content \o Backticked(c)
                 /\ UNCHANGED current_line_spans
            ELSE /\ current_line_spans' =
                      Append(current_line_spans, Span(Backticked(c), CodeStyle, Here))
                 /\ UNCHANGED current_cell_content
    /\ UNCHANGED <<slides, current_slide_lines, hvars, svars, cvars, in_table, table_rows,
                   current_table_row, in_table_header, in_list, tcnt, rest>>


(***************************************************************************)
(* Code blocks (main.rs 372-520).                                          *)
(***************************************************************************)
\* CodeBlockKind: <<"Indented">> or <<"Fenced", info string>>
CodeBlockKinds ==
    {<<"Indented">>, <<"Fenced", "">>, <<"Fenced", "zzz">>, <<"Fenced", "rs">>,
     <<"Fenced", "golang">>}
PlainKinds == {<<"Indented">>, <<"Fenced", "zzz">>}

\* Option<String>: <<>> is None, <<l>> is Some(l)
lang_of(info) ==
    IF info[1] = "Indented" THEN <<>>
    ELSE IF info[2] = "" THEN <<>> ELSE <<info[2]>>

\* the grammars of the default syntax set that the modelled tags can hit
find_syntax_by_token(tag) == tag \in {"rs"}
find_syntax_by_extension(ext) == ext \in {"rs", "go"}
extension_of(lang) ==
    CASE lang \in {"rust", "rs"} -> "rs"
      [] lang \in {"go", "golang"} -> "go"
      [] OTHER -> lang
has_syntax(lang) ==
    IF find_syntax_by_token(lang) THEN TRUE
    ELSE find_syntax_by_extension(extension_of(lang))

FirstNL(s) ==
    IF \E i \in 1..Len(s) : s[i] = "\n"
    THEN CHOOSE i \in 1..Len(s) : s[i] = "\n" /\ \A j \in 1..(i - 1) : s[j] # "\n"
    ELSE 0

\* LinesWithEndings: the lines with their terminators
RECURSIVE LinesWithEndings(_)
LinesWithEndings(s) ==
    IF s = <<>> THEN <<>>
    ELSE IF FirstNL(s) = 0 THEN <<s>>
    ELSE <<SubSeq(s, 1, FirstNL(s))>> \o LinesWithEndings(SubSeq(s, FirstNL(s) + 1, Len(s)))

StripEnding(l) ==
    IF l # <<>> /\ l[Len(l)] = "\n" THEN SubSeq(l, 1, Len(l) - 1) ELSE l

\* faulty variant: str::split('\n'), which keeps the empty piece after a final terminator
str_lines_split(s) ==
    IF s # <<>> /\ s[Len(s)] = "\n"
    THEN [i \in 1..(Len(LinesWithEndings(s)) + 1) |->
            IF i <= Len(LinesWithEndings(s)) THEN StripEnding(LinesWithEndings(s)[i]) ELSE <<>>]
    ELSE [i \in 1..Len(LinesWithEndings(s)) |-> StripEnding(LinesWithEndings(s)[i])]

\* str::lines
str_lines(s) ==
    [i \in 1..Len(LinesWithEndings(s)) |-> StripEnding(LinesWithEndings(s)[i])]

fallback_lines(content) ==
    [i \in 1..Len(str_lines(content)) |-> <<Span(str_lines(content)[i], Fg("Green"), 0)>>]

\* hl is what highlight_line answers for the lines of this block: "empty" (no
\* range, or an error) or "ranges" (here one range, the whole line)
HighlightOutcomes == {"empty", "ranges"}
highlighted_lines(content, hl) ==
    [i \in 1..Len(LinesWithEndings(content)) |->
        IF hl = "empty"
        THEN <<Span(LinesWithEndings(content)[i], Fg("Green"), 0)>>
        ELSE <<Span(LinesWithEndings(content)[i], Fg("Theme"), 0)>>]

code_lines(lang, content, hl) ==
    IF lang # <<>>
    THEN IF has_syntax(lang[1]) THEN highlighted_lines(content, hl)
         ELSE fallback_lines(content)
    ELSE fallback_lines(content)

Start_CodeBlock(kinds) ==
    /\ CanOpen /\ BlockPos
    /\ \E info \in kinds :
         /\ Open(Tok("StartCodeBlock", info, 0), "CodeBlock")
         /\ code_block_lang' = lang_of(info)
    /\ current_slide_lines' = push_current_line(current_slide_lines, current_line_spans, FALSE)
    /\ current_line_spans' = <<>>
    /\ in_code_block' = TRUE
    /\ code_block_content' = <<>>
    /\ UNCHANGED <<slides, hvars, svars, tvars, in_list, tcnt, rest>>

\* only a fenced block can be empty: an indented block always holds text
End_CodeBlock ==
    /\ pc = "parse" /\ Top = "CodeBlock"
    /\ LastK = "StartCodeBlock" => toks[Len(toks)].s # <<"Indented">>
    /\ Close(Tok("EndCodeBlock", <<>>, 0))
    /\ \E hl \in HighlightOutcomes :
         current_slide_lines' =
            add_spacing(current_slide_lines
                          \o built_from(code_lines(code_block_lang, code_block_content, hl),
                                        Here))
    /\ in_code_block' = FALSE
    /\ code_block_content' = <<>>
    /\ code_block_lang' = <<>>
    /\ UNCHANGED <<slides, current_line_spans, hvars, svars, tvars, in_list, tcnt, rest>>

(***************************************************************************)
(* Tables (main.rs 521-621).                                               *)
(***************************************************************************)
Gray == Fg("Gray")
\* faulty variant: the cell measured in chars, not in columns
cell_width_chars(cell) == CharsCount(cell)
cell_width(cell) == Width(cell)
SatSub(a, b) == IF a > b THEN a - b ELSE 0

num_cols(rows) == MaxOf({Len(rows[k]) : k \in 1..Len(rows)})
col_widths(rows) ==
    [i \in 1..num_cols(rows) |->
        MaxOf({cell_width(rows[k][i]) : k \in {r \in 1..Len(rows) : i <= Len(rows[r])}})]

\* a border line: left corner, per column width+2 bars and a joint between
\* columns, right corner
border(left, mid, right, widths) ==
    <<Span(<<left>>, Gray, 0)>>
    \o Concat([i \in 1..Len(widths) |->
                  <<Span(Rep("-", widths[i] + 2), Gray, 0)>>
                  \o (IF i < Len(widths) THEN <<Span(<<mid>>, Gray, 0)>> ELSE <<>>)])
    \o <<Span(<<right>>, Gray, 0)>>

padded_cell(cell, widths, c) ==
    cell \o Rep(" ", SatSub(IF c <= Len(widths) THEN widths[c] ELSE 10, cell_width(cell)))

row_line(row, widths) ==
    <<Span(<<"|", " ">>, Gray, 0)>>
    \o Concat([c \in 1..Len(row) |->
                  <<Span(padded_cell(row[c], widths, c), Fg("White"), 0),
                    Span(<<" ", "|", " ">>, Gray, 0)>>])

table_lines(rows) ==
    <<border("tl", "tt", "tr", col_widths(rows))>>
    \o Concat([k \in 1..Len(rows) |->
                  <<row_line(rows[k], col_widths(rows))>>
                  \o (IF k < Len(rows)
                      THEN <<border("lt", "x", "rt", col_widths(rows))>>
                      ELSE <<>>)])
    \o <<border("bl", "bt", "br", col_widths(rows))>>

IsSpace(c) == c \in {" ", "\n"}
RECURSIVE TrimStart(_)
TrimStart(s) == IF s # <<>> /\ IsSpace(Head(s)) THEN TrimStart(Tail(s)) ELSE s
RECURSIVE TrimEnd(_)
TrimEnd(s) ==
    IF s # <<>> /\ IsSpace(s[Len(s)]) THEN TrimEnd(SubSeq(s, 1, Len(s) - 1)) ELSE s
trim(s) == TrimEnd(TrimStart(s))

\* faulty variant: the table start without the commit of the pending line
Start_Table_keeps_pending ==
    /\ CanOpen /\ BlockPos
    /\ Open(Tok("StartTable", <<>>, 0), "Table")
    /\ in_table' = TRUE
    /\ table_rows' = <<>>
    /\ tcols' = 0 /\ tcell' = 0
    /\ UNCHANGED <<slides, current_slide_lines, current_line_spans, hvars, svars, cvars,
                   current_table_row, current_cell_content, in_table_header, in_list, rest>>

Start_Table ==
    /\ CanOpen /\ BlockPos
    /\ Open(Tok("StartTable", <<>>, 0), "Table")
    /\ current_slide_lines' = push_current_line(current_slide_lines, current_line_spans, FALSE)
    /\ current_line_spans' = <<>>
    /\ in_table' = TRUE
    /\ table_rows' = <<>>
    /\ tcols' = 0 /\ tcell' = 0
    /\ UNCHANGED <<slides, hvars, svars, cvars, current_table_row, current_cell_content,
                   in_table_header, in_list, rest>>

End_Table ==
    /\ pc = "parse" /\ Top = "Table" /\ LastK \in {"EndHead", "EndRow"}
    /\ Close(Tok("EndTable", <<>>, 0))
    /\ current_slide_lines' =
         add_spacing(IF table_rows # <<>>
                     THEN current_slide_lines \o built_from(table_lines(table_rows), Here)
                     ELSE current_slide_lines)
    /\ in_table' = FALSE
    /\ in_table_header' = FALSE
    /\ UNCHANGED <<slides, current_line_spans, hvars, svars, cvars, table_rows,
                   current_table_row, current_cell_content, in_list, tcnt, rest>>

\* the structural events of a table (head, row, cell starts) are not counted in
\* `used`: the header bounds the cells and the rows are counted
Start_TableHead ==
    /\ pc = "parse" /\ Top = "Table" /\ LastK = "StartTable"
    /\ toks' = Append(toks, Tok("StartHead", <<>>, 0))
    /\ ctx' = Append(ctx, "Head")
    /\ in_table_header' = TRUE
    /\ UNCHANGED <<slides, current_slide_lines, current_line_spans, hvars, svars, cvars,
                   in_table, table_rows, current_table_row, current_cell_content, in_list,
                   tcnt, used, rest>>

End_TableHead ==
    /\ pc = "parse" /\ Top = "Head" /\ tcell >= 1
    /\ Close(Tok("EndHead", <<>>, 0))
    /\ tcols' = tcell /\ tcell' = 0
    /\ in_table_header' = FALSE
    /\ UNCHANGED <<slides, current_slide_lines, current_line_spans, hvars, svars, cvars,
                   in_table, table_rows, current_table_row, current_cell_content, in_list,
                   rest>>

Start_TableRow ==
    /\ CanOpen /\ Top = "Table" /\ LastK \in {"EndHead", "EndRow"}
    /\ Open(Tok("StartRow", <<>>, 0), "Row")
    /\ tcell' = 0
    /\ current_table_row' = <<>>
    /\ UNCHANGED <<slides, current_slide_lines, current_line_spans, hvars, svars, cvars,
                   in_table, table_rows, current_cell_content, in_table_header, in_list,
                   tcols, rest>>

End_TableRow ==
    /\ pc = "parse" /\ Top = "Row" /\ tcell = tcols
    /\ Close(Tok("EndRow", <<>>, 0))
    /\ table_rows' = Append(table_rows, current_table_row)
    /\ current_table_row' = <<>>
    /\ UNCHANGED <<slides, current_slide_lines, current_line_spans, hvars, svars, cvars,
                   in_table, current_cell_content, in_table_header, in_list, tcnt, rest>>

Start_TableCell ==
    /\ pc = "parse" /\ Top \in {"Head", "Row"}
    /\ tcell < (IF Top = "Head" THEN MaxCols ELSE tcols)
    /\ toks' = Append(toks, Tok("StartCell", <<>>, 0))
    /\ ctx' = Append(ctx, "Cell")
    /\ current_cell_content' = <<>>
    /\ UNCHANGED <<slides, current_slide_lines, current_line_spans, hvars, svars, cvars,
                   in_table, table_rows, current_table_row, in_table_header, in_list,
                   tcnt, used, rest>>

End_TableCell ==
    /\ pc = "parse" /\ Top = "Cell"
    /\ Close(Tok("EndCell", <<>>, 0))
    /\ tcell' = tcell + 1
    /\ current_table_row' = Append(current_table_row, trim(current_cell_content))
    /\ current_cell_content' = <<>>
    /\ UNCHANGED <<slides, current_slide_lines, current_line_spans, hvars, svars, cvars,
                   in_table, table_rows, in_table_header, in_list, tcols, rest>>

(***************************************************************************)
(* Breaks and every other event (main.rs 622-628).                         *)
(***************************************************************************)
Break ==
    /\ CanOpen /\ Top \in {"H", "P", "Strong", "Em", "ItemT"}
    /\ LastK \in {"Text", "Code", "EndStrong", "EndEm"}
    /\ \E k \in Breaks : Open(Tok(k, <<>>, 0), "")
    /\ current_slide_lines' =
         IF ~in_table
         THEN push_current_line(current_slide_lines, current_line_spans, FALSE)
         ELSE current_slide_lines
    /\ current_line_spans' = IF ~in_table THEN <<>> ELSE current_line_spans
    /\ UNCHANGED <<slides, hvars, svars, cvars, tvars, in_list, tcnt, rest>>

\* an event the builder ignores: a rule, html, a link or block quote tag ...
Other ==
    /\ CanOpen /\ Top \in {"Doc", "ItemT", "ItemL", "H", "P", "Strong", "Em", "Cell"}
    /\ Open(Tok("Other", <<>>, 0), "")
    /\ UNCHANGED <<parser, tcnt, rest>>

(***************************************************************************)
(* End of input (main.rs 631-638) and App::new (main.rs 96-107).           *)
(***************************************************************************)
\* faulty variant: the placeholder pushed without the is_empty test
with_placeholder_always(sl) == Append(sl, PlaceholderSlide)
with_placeholder(sl) == IF sl = <<>> THEN <<PlaceholderSlide>> ELSE sl

Finish ==
    /\ pc = "parse" /\ ctx = <<>>
    /\ slides' = with_placeholder(
                    finish_slide(slides,
                        push_current_line(current_slide_lines, current_line_spans, FALSE)))
    /\ current_slide_lines' = <<>>
    /\ current_line_spans' = <<>>
    /\ current_slide' = 0
    /\ scroll_offset' = 0
    /\ pc' = "present"
    /\ UNCHANGED <<hvars, svars, cvars, tvars, in_list, stream, terminal_width, limit, op>>

(***************************************************************************)
(* App (main.rs 112-148).                                                  *)
(***************************************************************************)
\* faulty variant: the slide change without the scroll reset
next_slide_keeps_scroll ==
    /\ pc = "present"
    /\ op' = "next_slide"
    /\ IF slides # <<>> /\ current_slide < Len(slides) - 1
       THEN /\ current_slide' = current_slide + 1
            /\ UNCHANGED scroll_offset
       ELSE UNCHANGED cursor
    /\ UNCHANGED <<parser, stream, terminal_width, limit, pc>>

next_slide ==
    /\ pc = "present"
    /\ op' = "next_slide"
    /\ IF slides # <<>> /\ current_slide < Len(slides) - 1
       THEN /\ current_slide' = current_slide + 1
            /\ scroll_offset' = 0
       ELSE UNCHANGED cursor
    /\ UNCHANGED <<parser, stream, terminal_width, limit, pc>>

\* faulty variant: the scroll reset moved out of the if
prev_slide_resets_always ==
    /\ pc = "present"
    /\ op' = "prev_slide"
    /\ current_slide' = IF current_slide > 0 THEN current_slide - 1 ELSE current_slide
    /\ scroll_offset' = 0
    /\ UNCHANGED <<parser, stream, terminal_width, limit, pc>>

prev_slide ==
    /\ pc = "present"
    /\ op' = "prev_slide"
    /\ IF current_slide > 0
       THEN /\ current_slide' = current_slide - 1
            /\ scroll_offset' = 0
       ELSE UNCHANGED cursor
    /\ UNCHANGED <<parser, stream, terminal_width, limit, pc>>

\* slides[current_slide].lines.len().saturating_sub(1); slides is 1-based here
\* faulty variant: saturating_sub(2), the last line is out of reach
max_scroll_short == SatSub(Len(slides[current_slide + 1]), 2)
max_scroll == SatSub(Len(slides[current_slide + 1]), 1)

\* faulty variant: <= for < in the bound test
scroll_down_past_end ==
    /\ pc = "present"
    /\ op' = "scroll_down"
    /\ IF slides # <<>>
       THEN IF scroll_offset <= max_scroll
            THEN scroll_offset' = scroll_offset + 1
            ELSE UNCHANGED scroll_offset
       ELSE UNCHANGED scroll_offset
    /\ UNCHANGED <<current_slide, parser, stream, terminal_width, limit, pc>>

scroll_down ==
    /\ pc = "present"
    /\ op' = "scroll_down"
    /\ IF slides # <<>>
       THEN IF scroll_offset < max_scroll
            THEN scroll_offset' = scroll_offset + 1
            ELSE UNCHANGED scroll_offset
       ELSE UNCHANGED scroll_offset
    /\ UNCHANGED <<current_slide, parser, stream, terminal_width, limit, pc>>

\* faulty variant: scrolling up at the top of a slide goes to the slide before
scroll_up_to_prev_slide ==
    /\ pc = "present"
    /\ op' = "scroll_up"
    /\ IF scroll_offset > 0
       THEN scroll_offset' = scroll_offset - 1 /\ UNCHANGED current_slide
       ELSE IF current_slide > 0
       THEN current_slide' = current_slide - 1 /\ UNCHANGED scroll_offset
       ELSE UNCHANGED <<current_slide, scroll_offset>>
    /\ UNCHANGED <<parser, stream, terminal_width, limit, pc>>

scroll_up ==
    /\ pc = "present"
    /\ op' = "scroll_up"
    /\ IF scroll_offset > 0
       THEN scroll_offset' = scroll_offset - 1
       ELSE UNCHANGED scroll_offset
    /\ UNCHANGED <<current_slide, parser, stream, terminal_width, limit, pc>>

(***************************************************************************)
(* Specifications.                                                         *)
(***************************************************************************)
InitWith(lim, widths) ==
    /\ slides = <<>> /\ current_slide_lines = <<>> /\ current_line_spans = <<>>
    /\ in_heading = FALSE /\ heading_level = 1
    /\ in_strong = FALSE /\ in_emphasis = FALSE
    /\ in_code_block = FALSE /\ code_block_lang = <<>> /\ code_block_content = <<>>
    /\ in_table = FALSE /\ in_list = FALSE
    /\ table_rows = <<>> /\ current_table_row = <<>> /\ current_cell_content = <<>>
    /\ in_table_header = FALSE
    /\ terminal_width \in widths
    /\ current_slide = 0 /\ scroll_offset = 0
    /\ toks = <<>> /\ ctx = <<>> /\ tcols = 0 /\ tcell = 0 /\ used = 0
    /\ limit = lim
    /\ pc = "parse"
    /\ op = "none"

\* streams of every kind of event, up to the end of input
Init == InitWith(MaxTok, {80})
Next ==
    \/ Start_Heading_H1 \/ Start_Heading({2}) \/ End_Heading \/ Text
    \/ Start_Paragraph \/ End_Paragraph
    \/ Start_List \/ Start_Item \/ End_Item \/ End_List
    \/ Start_Strong \/ End_Strong \/ Start_Emphasis \/ End_Emphasis \/ Code
    \/ Start_CodeBlock(PlainKinds) \/ End_CodeBlock
    \/ Start_Table \/ End_Table \/ Start_TableHead \/ End_TableHead
    \/ Start_TableRow \/ End_TableRow \/ Start_TableCell \/ End_TableCell
    \/ Break \/ Other \/ Finish
Spec == Init /\ [][Next]_vars

\* streams of headings and paragraphs, then the presentation of the deck
InitApp == InitWith(MaxTokApp, {80})
NextApp ==
    \/ Start_Heading_H1 \/ End_Heading \/ Text
    \/ Start_Paragraph \/ End_Paragraph \/ Break \/ Finish
    \/ next_slide \/ prev_slide \/ scroll_down \/ scroll_up
SpecApp == InitApp /\ [][NextApp]_vars

\* the presentation with a key that is held: run_app handles every key event
\* it reads (main.rs 708-724), so once an operation is being repeated and
\* can still move the cursor, it is called again
InitLive == InitWith(MaxTokLive, {80})
SpecLive ==
    /\ InitLive /\ [][NextApp]_vars
    /\ WF_vars(op = "next_slide" /\ next_slide)
    /\ WF_vars(op = "prev_slide" /\ prev_slide)
    /\ WF_vars(op = "scroll_down" /\ scroll_down)

\* streams of headings, for every terminal width up to MaxWidth
InitHeading == InitWith(MaxTokHeading, 0..MaxWidth)
NextHeading ==
    \/ Start_Heading_H1 \/ Start_Heading({2}) \/ End_Heading \/ Text \/ Code
    \/ Break \/ Finish
SpecHeading == InitHeading /\ [][NextHeading]_vars

\* streams of code blocks and paragraphs
InitCode == InitWith(MaxTokCode, {80})
NextCode ==
    \/ Start_CodeBlock(CodeBlockKinds) \/ End_CodeBlock \/ Text
    \/ Start_Paragraph \/ End_Paragraph \/ Finish
SpecCode == InitCode /\ [][NextCode]_vars

\* streams of tables
InitTable == InitWith(MaxTokTable, {80})
NextTable ==
    \/ Start_Table \/ End_Table \/ Start_TableHead \/ End_TableHead
    \/ Start_TableRow \/ End_TableRow \/ Start_TableCell \/ End_TableCell
    \/ Text \/ Code \/ Finish
SpecTable == InitTable /\ [][NextTable]_vars

\* streams of headings of every level and paragraphs, with strong and emphasis
HeadingLevels == {2, 3, 4, 5}
InitInline == InitWith(MaxTokInline, {80})
NextInline ==
    \/ Start_Heading_H1 \/ Start_Heading(HeadingLevels) \/ End_Heading \/ Text
    \/ Start_Paragraph \/ End_Paragraph
    \/ Start_Strong \/ End_Strong \/ Start_Emphasis \/ End_Emphasis \/ Finish
SpecInline == InitInline /\ [][NextInline]_vars


(***************************************************************************)
(* What the claims speak of, read off the stream and the deck.             *)
(***************************************************************************)
TokIdx == 1..Len(toks)
H1Starts == {i \in TokIdx : toks[i].k = "StartH" /\ toks[i].n = 1}
ContentToks == {i \in TokIdx : toks[i].k \in {"Text", "Code"}}
\* the event just consumed was of kind k (toks grew by it in this step)
Consumed(k) == Len(toks') = Len(toks) + 1 /\ toks'[Len(toks')].k = k

\* the H1 heading start that encloses event j, 0 when none does
HeadingOf(j) ==
    IF \E i \in H1Starts : i < j /\ \A m \in (i + 1)..(j - 1) : toks[m].k # "EndH"
    THEN CHOOSE i \in H1Starts : i < j /\ \A m \in (i + 1)..(j - 1) : toks[m].k # "EndH"
    ELSE 0
\* event j lies between a table start and its end
InTableTok(j) ==
    \E i \in TokIdx : /\ i < j /\ toks[i].k = "StartTable"
                      /\ \A m \in (i + 1)..(j - 1) : toks[m].k # "EndTable"
\* the level of the heading that encloses event j, 0 when none does
LevelOf(j) ==
    LET S == {i \in TokIdx : /\ i < j /\ toks[i].k = "StartH"
                             /\ \A m \in (i + 1)..(j - 1) : toks[m].k # "EndH"}
    IN  IF S = {} THEN 0 ELSE toks[CHOOSE i \in S : TRUE].n
\* every run of the deck, of the slide being built and of the pending line
RunsOf(lines) == UNION {{lines[i][r] : r \in 1..Len(lines[i])} : i \in 1..Len(lines)}
AllRuns ==
    UNION {RunsOf(slides[s]) : s \in 1..Len(slides)}
      \cup RunsOf(current_slide_lines)
      \cup {current_line_spans[r] : r \in 1..Len(current_line_spans)}
\* the runs made from text events
TextRuns == {r \in AllRuns : r.src > 0 /\ toks[r.src].k = "Text"}
DisplayWidth(spans) == SumSeq([i \in 1..Len(spans) |-> Width(spans[i].content)])

(***************************************************************************)
(* C1: in every state reachable from App::new by next_slide, prev_slide,   *)
(* scroll_down and scroll_up the slide list is non-empty, current_slide <  *)
(* number of slides and scroll_offset <= max(0, lines of the current slide *)
(* - 1).                                                                   *)
(***************************************************************************)
C1_CursorInBounds ==
    pc = "present" =>
        /\ slides # <<>>
        /\ current_slide < Len(slides)
        /\ scroll_offset <= SatSub(Len(slides[current_slide + 1]), 1)
C1_Witness ==
    /\ pc = "present" /\ op = "scroll_down"
    /\ current_slide = Len(slides) - 1 /\ current_slide > 0
    /\ scroll_offset = Len(slides[current_slide + 1]) - 1 /\ scroll_offset > 1

(***************************************************************************)
(* C2: navigation at a boundary changes neither current_slide nor          *)
(* scroll_offset: prev_slide at slide 0, next_slide at the last slide,     *)
(* scroll_down at offset = line count - 1, scroll_up at offset 0.          *)
(***************************************************************************)
C2_BoundaryNoOp ==
    [][(/\ pc = "present"
        /\ \/ op' = "prev_slide" /\ current_slide = 0
           \/ op' = "next_slide" /\ current_slide = Len(slides) - 1
           \/ op' = "scroll_down" /\ scroll_offset = Len(slides[current_slide + 1]) - 1
           \/ op' = "scroll_up" /\ scroll_offset = 0)
       => UNCHANGED cursor]_vars
\* prev_slide was called on slide 0 with the view scrolled: a prev_slide that
\* moves resets the offset, so this state is the result of the boundary call
C2_Witness ==
    /\ pc = "present" /\ op = "prev_slide"
    /\ current_slide = 0 /\ scroll_offset > 0 /\ Len(slides) > 1

(***************************************************************************)
(* C3: a stream with N >= 1 H1 heading starts and nothing before the first *)
(* one gives a deck of exactly N slides.                                   *)
(***************************************************************************)
C3_OneSlidePerH1 ==
    (pc = "present" /\ H1Starts # {} /\ 1 \in H1Starts)
        => Len(slides) = Cardinality(H1Starts)

(***************************************************************************)
(* C4: a stream that yields no line gives the deck of the one placeholder  *)
(* slide, and the placeholder slide is in no deck that has another slide.  *)
(***************************************************************************)
\* what makes a line: a bullet, a table row, a code block with text, text or
\* inline code outside a table
YieldsLine ==
    \E i \in TokIdx :
        \/ toks[i].k \in {"StartItem", "StartRow"}
        \/ toks[i].k \in {"Text", "Code"} /\ ~InTableTok(i)
C4_Placeholder ==
    pc = "present" =>
        /\ ~YieldsLine <=> slides = <<PlaceholderSlide>>
        /\ (\E s \in 1..Len(slides) : slides[s] = PlaceholderSlide) => Len(slides) = 1
C4_Witness ==
    /\ pc = "present" /\ toks # <<>> /\ ~YieldsLine
    /\ slides = <<PlaceholderSlide>>

(***************************************************************************)
(* C5: a stream with no H1 heading start and at least one content event    *)
(* gives a deck of exactly one slide, which holds the content and is not   *)
(* the placeholder.                                                        *)
(***************************************************************************)
C5_OneSlideOfContent ==
    (pc = "present" /\ H1Starts = {} /\ ContentToks # {})
        => /\ Len(slides) = 1
           /\ slides[1] # PlaceholderSlide

(***************************************************************************)
(* C6: an H1 heading line committed at heading end, of display width L     *)
(* (a wide character counts 2) under target width W: when L < W it starts  *)
(* with one run of exactly floor((W-L)/2) spaces (no run when that is 0),  *)
(* when L >= W it gets no pad run.                                         *)
(***************************************************************************)
C6_Centering ==
    [][(/\ Consumed("EndH") /\ heading_level = 1 /\ current_line_spans # <<>>)
       => LET L == DisplayWidth(current_line_spans)
              W == terminal_width
              line == current_slide_lines'[Len(current_slide_lines) + 1]
          IN  IF L < W /\ (W - L) \div 2 > 0
              THEN line = <<Span(Rep(" ", (W - L) \div 2), StyleDefault, 0)>>
                          \o current_line_spans
              ELSE line = current_line_spans]_vars

(***************************************************************************)
(* C7: table end with R >= 1 accumulated rows emits a top border, the R    *)
(* data rows with a separator between consecutive rows (R-1 of them) and a *)
(* bottom border; width[i] is the largest display width of the cells at    *)
(* index i, and each border and separator has width[i]+2 bars in column i. *)
(***************************************************************************)
C7_Width(i) ==
    MaxOf({Width(table_rows[k][i]) :
             k \in {r \in 1..Len(table_rows) : i <= Len(table_rows[r])}})
C7_Cols == MaxOf({Len(table_rows[k]) : k \in 1..Len(table_rows)})
C7_IsBorder(line, left, mid, right) ==
    /\ Len(line) = 2 * C7_Cols + 1
    /\ line[1].content = <<left>>
    /\ line[2 * C7_Cols + 1].content = <<right>>
    /\ \A i \in 1..C7_Cols : line[2 * i].content = Rep("-", C7_Width(i) + 2)
    /\ \A i \in 1..(C7_Cols - 1) : line[2 * i + 1].content = <<mid>>
C7_IsDataRow(line, row) ==
    /\ Len(line) = 2 * Len(row) + 1
    /\ line[1].content = <<"|", " ">>
    /\ \A c \in 1..Len(row) :
         /\ SubSeq(line[2 * c].content, 1, Len(row[c])) = row[c]
         /\ Width(line[2 * c].content) = C7_Width(c)
         /\ line[2 * c + 1].content = <<" ", "|", " ">>
C7_TableLayout ==
    [][(Consumed("EndTable") /\ table_rows # <<>>)
       => LET R == Len(table_rows)
              base == Len(current_slide_lines)
              B(k) == current_slide_lines'[base + k]
          IN  /\ Len(current_slide_lines') = base + 2 * R + 2
              /\ SubSeq(current_slide_lines', 1, base) = current_slide_lines
              /\ C7_IsBorder(B(1), "tl", "tt", "tr")
              /\ \A k \in 1..R : C7_IsDataRow(B(2 * k), table_rows[k])
              /\ \A k \in 1..(R - 1) : C7_IsBorder(B(2 * k + 1), "lt", "x", "rt")
              /\ C7_IsBorder(B(2 * R + 1), "bl", "bt", "br")
              /\ B(2 * R + 2) = <<>>]_vars
\* a table of two rows and two columns of different widths, one cell wide
C7_Witness ==
    /\ LastK = "EndTable" /\ Len(table_rows) = 2 /\ C7_Cols = 2
    /\ C7_Width(1) # C7_Width(2)
    /\ \E k \in 1..2 : \E c \in 1..2 : table_rows[k][c] = <<"W">>
    /\ Len(current_slide_lines) = 6

(***************************************************************************)
(* C8: a code block with no language tag (indented, or an empty info       *)
(* string) or with a tag that has no grammar emits exactly one line per    *)
(* source line of the buffered text, in order, each a single run in the    *)
(* fallback code colour.                                                   *)
(***************************************************************************)
C8_Newlines(t) == {i \in 1..Len(t) : t[i] = "\n"}
C8_NumLines(t) ==
    Cardinality(C8_Newlines(t)) + (IF t # <<>> /\ t[Len(t)] # "\n" THEN 1 ELSE 0)
\* where the k-th source line ends: at its terminator, or past the end
C8_LineEnd(t, k) ==
    IF k <= Cardinality(C8_Newlines(t))
    THEN CHOOSE i \in C8_Newlines(t) :
            Cardinality({j \in C8_Newlines(t) : j <= i}) = k
    ELSE Len(t) + 1
C8_Line(t, k) ==
    SubSeq(t, IF k = 1 THEN 1 ELSE C8_LineEnd(t, k - 1) + 1, C8_LineEnd(t, k) - 1)
C8_NoGrammar(lang) == lang = <<>> \/ ~has_syntax(lang[1])
C8_PlainCodeLines ==
    [][(Consumed("EndCodeBlock") /\ C8_NoGrammar(code_block_lang))
       => LET n == C8_NumLines(code_block_content)
              base == Len(current_slide_lines)
              got == Len(current_slide_lines')
          IN  /\ SubSeq(current_slide_lines', 1, base) = current_slide_lines
              /\ got \in {base + n, base + n + 1}
              /\ got = base + n + 1 => current_slide_lines'[got] = <<>>
              /\ \A k \in 1..n :
                   /\ Len(current_slide_lines'[base + k]) = 1
                   /\ current_slide_lines'[base + k][1].content
                        = C8_Line(code_block_content, k)
                   /\ current_slide_lines'[base + k][1].style = Fg("Green")]_vars
\* a block tagged "zzz" of three lines, the middle one empty, has been emitted
C8_Witness ==
    /\ LastK = "EndCodeBlock" /\ Len(toks) = 6
    /\ toks[1] = Tok("StartCodeBlock", <<"Fenced", "zzz">>, 0)
    /\ Len(current_slide_lines) = 4
    /\ current_slide_lines[2] = <<Span(<<>>, Fg("Green"), 6)>>
    /\ current_slide_lines[3] = <<Span(<<"a">>, Fg("Green"), 6)>>

(***************************************************************************)
(* C9: an H1 heading start leaves a fresh, empty slide behind it, so that  *)
(* in the final deck no line precedes an H1 heading's text within its      *)
(* slide and no slide holds text of two different H1 headings.             *)
(***************************************************************************)
C9_H1StartsSlide ==
    /\ (LastK = "StartH" /\ toks[Len(toks)].n = 1)
          => current_slide_lines = <<>> /\ current_line_spans = <<>>
    /\ pc = "present" =>
         \A s \in 1..Len(slides) : \A i \in 1..Len(slides[s]) :
           \A r \in 1..Len(slides[s][i]) :
             HeadingOf(slides[s][i][r].src) > 0 =>
               /\ \A j \in 1..(i - 1) : \A q \in 1..Len(slides[s][j]) :
                    HeadingOf(slides[s][j][q].src) = HeadingOf(slides[s][i][r].src)
               /\ \A j \in 1..Len(slides[s]) : \A q \in 1..Len(slides[s][j]) :
                    HeadingOf(slides[s][j][q].src) > 0 =>
                      HeadingOf(slides[s][j][q].src) = HeadingOf(slides[s][i][r].src)
\* a paragraph, then an H1 heading with text: two slides, the second one
\* beginning with the heading
C9_Witness ==
    /\ pc = "present" /\ Len(slides) = 2
    /\ toks[1].k = "StartP"
    /\ \E r \in 1..Len(slides[2][1]) : HeadingOf(slides[2][1][r].src) > 0
    /\ \E r \in 1..Len(slides[1][1]) :
         slides[1][1][r].src > 0 /\ HeadingOf(slides[1][1][r].src) = 0

(***************************************************************************)
(* C10: for every list item the bullet run is the first run of the line    *)
(* that holds the item's first text run, also when the text is wrapped in  *)
(* a paragraph (item start, paragraph start, text).                        *)
(***************************************************************************)
\* j is the first text of the item started at i: only inline or paragraph
\* starts lie between the two
C10_FirstText(i, j) ==
    /\ i < j /\ toks[i].k = "StartItem" /\ toks[j].k \in {"Text", "Code"}
    /\ \A m \in (i + 1)..(j - 1) : toks[m].k \in {"StartP", "StartStrong", "StartEm"}
C10_BulletWithText ==
    pc = "present" =>
        \A i \in TokIdx : \A j \in TokIdx :
            C10_FirstText(i, j) =>
                \E s \in 1..Len(slides) : \E l \in 1..Len(slides[s]) :
                    /\ slides[s][l] # <<>>
                    /\ slides[s][l][1].src = i
                    /\ \E r \in 2..Len(slides[s][l]) : slides[s][l][r].src = j

(***************************************************************************)
(* C11: a text event outside every heading, code block and table gives a   *)
(* run that is bold iff the strong flag is set and italic iff the emphasis *)
(* flag is set; text inside both spans is bold and italic.                 *)
(***************************************************************************)
C11_StrongEmphasisStack ==
    [][(Consumed("Text") /\ ~in_heading /\ ~in_code_block /\ ~in_table)
       => LET run == current_line_spans'[Len(current_line_spans')]
          IN  /\ run.style.bold <=> in_strong
              /\ run.style.italic <=> in_emphasis]_vars

(***************************************************************************)
(* C12: the style of a run made from a text event inside a heading is      *)
(* fixed by the heading level alone, whatever the strong and emphasis      *)
(* flags are: it is bold, and two such runs whose levels fall in the same  *)
(* bucket (1, 2, 3, 4-or-deeper) have the same style.                      *)
(***************************************************************************)
C12_Bucket(level) == IF level >= 4 THEN 4 ELSE level
C12_HeadingRuns == {r \in TextRuns : LevelOf(r.src) > 0}
C12_HeadingStyleByLevel ==
    \A r \in C12_HeadingRuns :
        /\ r.style.bold
        /\ \A q \in C12_HeadingRuns :
             C12_Bucket(LevelOf(r.src)) = C12_Bucket(LevelOf(q.src)) => r.style = q.style
\* plain text in an H4 heading, then text inside a strong span in an H5 heading
C12_Witness ==
    \E r \in C12_HeadingRuns : \E q \in C12_HeadingRuns :
        /\ LevelOf(r.src) = 4 /\ toks[r.src - 1].k = "StartH"
        /\ LevelOf(q.src) = 5 /\ toks[q.src - 1].k = "StartStrong"

(***************************************************************************)
(* C13: navigation never changes the deck: next_slide, prev_slide,         *)
(* scroll_down and scroll_up leave the slide list unchanged, and           *)
(* scroll_down and scroll_up leave current_slide unchanged.                *)
(***************************************************************************)
C13_NavigationKeepsDeck ==
    [][pc = "present"
       => /\ slides' = slides
          /\ op' \in {"scroll_down", "scroll_up"} => current_slide' = current_slide]_vars
\* a scroll call on a later slide of a deck of several slides
C13_Witness ==
    /\ pc = "present" /\ op \in {"scroll_down", "scroll_up"}
    /\ Len(slides) > 1 /\ current_slide > 0

(***************************************************************************)
(* C15: table end with zero accumulated rows appends no line at all to the *)
(* current slide (no border and no spacing line), whatever the slide       *)
(* already holds.                                                          *)
(***************************************************************************)
C15_EmptyTableEmitsNothing ==
    [][(Consumed("EndTable") /\ table_rows = <<>>)
       => current_slide_lines' = current_slide_lines]_vars

(***************************************************************************)
(* C16: a table whose header cells come directly inside the table head,    *)
(* followed by k >= 0 body rows, is rendered with k+1 data rows, the first *)
(* of which holds the header cells; no completed cell is dropped.          *)
(***************************************************************************)
C16_TableStart == CHOOSE i \in TokIdx :
    toks[i].k = "StartTable" /\ \A m \in (i + 1)..Len(toks) : toks[m].k # "StartTable"
C16_BodyRows == {i \in TokIdx : i > C16_TableStart /\ toks[i].k = "StartRow"}
C16_HeaderCells ==
    {i \in TokIdx : /\ i > C16_TableStart /\ toks[i].k = "EndCell"
                    /\ \A m \in C16_BodyRows : i < m}
C16_HeaderRowRendered ==
    [][Consumed("EndTable")
       => LET base == Len(current_slide_lines)
              data == {i \in (base + 1)..Len(current_slide_lines') :
                         /\ current_slide_lines'[i] # <<>>
                         /\ current_slide_lines'[i][1].content = <<"|", " ">>}
          IN  /\ Cardinality(data) = Cardinality(C16_BodyRows) + 1
              /\ \A i \in data : (\A j \in data : i <= j) =>
                   Len(current_slide_lines'[i]) = 2 * Cardinality(C16_HeaderCells) + 1]_vars

(***************************************************************************)
(* C17: on a slide that holds a line, every list end appends exactly one   *)
(* empty spacing line, also the end of an outer list whose inner list has  *)
(* already ended; every paragraph end outside a table commits the pending  *)
(* line and appends exactly one spacing line.                              *)
(***************************************************************************)
C17_Committed ==
    IF current_line_spans # <<>>
    THEN Append(current_slide_lines, current_line_spans)
    ELSE current_slide_lines
C17_SpacingAfterListAndParagraph ==
    [][/\ (Consumed("EndList") /\ current_slide_lines # <<>>)
            => current_slide_lines' = Append(current_slide_lines, <<>>)
       /\ (Consumed("EndP") /\ ~in_table /\ C17_Committed # <<>>)
            => /\ current_slide_lines' = Append(C17_Committed, <<>>)
               /\ current_line_spans' = <<>>]_vars

(***************************************************************************)
(* C18: every code-block end appends exactly one empty spacing line after  *)
(* the lines of the block (one per source line of the buffered text), also *)
(* for an empty code block that is the first content of its slide.         *)
(***************************************************************************)
C18_SpacingAfterCodeBlock ==
    [][Consumed("EndCodeBlock")
       => LET got == Len(current_slide_lines')
          IN  /\ got = Len(current_slide_lines) + C8_NumLines(code_block_content) + 1
              /\ current_slide_lines'[got] = <<>>]_vars

(***************************************************************************)
(* C19: a line committed by a soft or hard break inside an H1 heading gets *)
(* the centering pad, exactly as the line committed at heading end does.   *)
(***************************************************************************)
C19_BreakInH1Centered ==
    [][(/\ Consumed("SoftBreak") \/ Consumed("HardBreak")
        /\ in_heading /\ heading_level = 1 /\ current_line_spans # <<>>)
       => /\ Len(current_slide_lines') = Len(current_slide_lines) + 1
          /\ current_slide_lines'[Len(current_slide_lines')]
               = centered(current_line_spans)]_vars

(***************************************************************************)
(* C20: a run made from text outside headings, code blocks and tables is   *)
(* bold whenever at least one strong span is open around it, also after    *)
(* the end of an inner strong span nested in an outer one; it is italic    *)
(* whenever at least one emphasis span is open around it (stated here for  *)
(* text outside every strong span, where bold does not mask italic).       *)
(***************************************************************************)
C20_Open(tag) == \E i \in 1..Len(ctx) : ctx[i] = tag
C20_NestedSpans ==
    [][(Consumed("Text") /\ ~in_heading /\ ~in_code_block /\ ~in_table)
       => LET run == current_line_spans'[Len(current_line_spans')]
          IN  /\ C20_Open("Strong") => run.style.bold
              /\ (C20_Open("Em") /\ ~C20_Open("Strong")) => run.style.italic]_vars

(***************************************************************************)
(* C21: between a table start and its table end no line is appended to    *)
(* the current slide and no run to the pending line: text, inline code and *)
(* breaks inside the table change the table buffers only, and the lines of *)
(* the table are all emitted at table end.                                 *)
(***************************************************************************)
C21_TableSuppressesLines ==
    [][/\ (in_table /\ ~Consumed("EndTable"))
            => UNCHANGED <<slides, current_slide_lines, current_line_spans>>
       /\ (Consumed("EndTable") /\ table_rows # <<>>)
            => /\ Len(current_slide_lines') > Len(current_slide_lines) + Len(table_rows)
               /\ UNCHANGED <<slides, current_line_spans>>]_vars
\* a paragraph, then a table whose header cell has just taken an inline code
C21_Witness ==
    /\ in_table /\ LastK = "Code"
    /\ current_cell_content # <<>>
    /\ current_slide_lines # <<>> /\ current_line_spans = <<>>

(***************************************************************************)
(* C22: output order equals input order: of two runs of the deck built     *)
(* from events, the one that comes first (earlier slide, earlier line of   *)
(* the slide, earlier in the line) is built from the earlier event; the    *)
(* lines of a code block spell the block's text events in their order, and *)
(* the k-th data row of a table holds the cells of the k-th rendered row   *)
(* in their order.                                                         *)
(***************************************************************************)
\* the lines of the deck, of the slide being built and the pending line
C22_DeckLines == Concat(slides) \o current_slide_lines \o <<current_line_spans>>
\* the events the runs of the deck were built from, in the order of the runs
C22_Srcs ==
    LET runs == Concat(C22_DeckLines)
    IN  SelectSeq([i \in 1..Len(runs) |-> runs[i].src], LAMBDA e : e > 0)
\* each run is built from a later event than the run before it, or from the
\* same block end
C22_InOrder ==
    LET F == C22_Srcs IN
    \A i \in 1..(Len(F) - 1) :
        \/ F[i] < F[i + 1]
        \/ F[i] = F[i + 1] /\ toks[F[i]].k \in {"EndTable", "EndCodeBlock"}
C22_Nth(S, k) == CHOOSE x \in S : Cardinality({y \in S : y <= x}) = k
C22_NoNL(t) == SelectSeq(t, LAMBDA c : c # "\n")
C22_LineText(line) == Concat([r \in 1..Len(line) |-> line[r].content])
\* the text events of the last code block, joined in their order
C22_CodeText ==
    LET start == CHOOSE i \in TokIdx :
                    toks[i].k = "StartCodeBlock"
                    /\ \A m \in (i + 1)..Len(toks) : toks[m].k # "StartCodeBlock"
    IN  Concat([m \in 1..(Len(toks) - start) |-> toks[start + m].s])
\* the trimmed text of the cell that starts at event i
C22_Piece(t) ==
    IF t.k = "Text" THEN t.s ELSE IF t.k = "Code" THEN Backticked(t.s) ELSE <<>>
C22_CellText(i) ==
    LET end == CHOOSE j \in TokIdx :
                  /\ j > i /\ toks[j].k = "EndCell"
                  /\ \A m \in (i + 1)..(j - 1) : toks[m].k # "EndCell"
    IN  trim(Concat([m \in 1..(end - i - 1) |-> C22_Piece(toks[i + m])]))
\* the cell starts of the k-th of R body rows, which start at the events start[1..R]
C22_RowCells(start, R, k) ==
    {i \in TokIdx : /\ toks[i].k = "StartCell" /\ i > start[k]
                    /\ k < R => i < start[k + 1]}
C22_OutputOrder ==
    /\ C22_InOrder
    /\ (pc = "parse" /\ LastK = "EndCodeBlock")
         => LET n == C8_NumLines(C22_CodeText)
                last == Len(current_slide_lines)
                new == IF n = 0 THEN <<>>
                       ELSE SubSeq(current_slide_lines, last - n, last - 1)
            IN  /\ n > 0 => last > n
                /\ C22_NoNL(Concat([i \in 1..Len(new) |-> C22_LineText(new[i])]))
                     = C22_NoNL(C22_CodeText)
    /\ (pc = "parse" /\ LastK = "EndTable" /\ C16_BodyRows # {})
         => LET B == C16_BodyRows
                R == Cardinality(B)
                start == [k \in 1..R |-> C22_Nth(B, k)]
                base == Len(current_slide_lines) - (2 * R + 2)
            IN  /\ base >= 0
                /\ \A k \in 1..R :
                     LET cells == C22_RowCells(start, R, k) IN
                     \A c \in 1..Cardinality(cells) :
                       LET want == C22_CellText(C22_Nth(cells, c))
                           got == current_slide_lines[base + 2 * k][2 * c].content
                       IN  /\ SubSeq(got, 1, Len(want)) = want
                           /\ \A i \in (Len(want) + 1)..Len(got) : got[i] = " "
\* a paragraph of text, then a table with a body row has been rendered
C22_Witness ==
    /\ pc = "parse" /\ LastK = "EndTable" /\ C16_BodyRows # {}
    /\ current_slide_lines # <<>> /\ current_slide_lines[1] # <<>>
    /\ current_slide_lines[1][1].src > 0
    /\ toks[current_slide_lines[1][1].src].k = "Text"

(***************************************************************************)
(* C23: block buffers do not leak: after every code-block end the code     *)
(* buffer is empty and the language tag unset, after every table end the   *)
(* row buffer, the current-row buffer and the cell buffer are empty, and   *)
(* every code-block start and table start begins with empty buffers of its *)
(* own kind.                                                               *)
(***************************************************************************)
C23_BuffersDrained ==
    /\ LastK = "EndCodeBlock" => code_block_content = <<>> /\ code_block_lang = <<>>
    /\ LastK = "StartCodeBlock" => code_block_content = <<>>
    /\ LastK \in {"EndTable", "StartTable"}
         => /\ table_rows = <<>>
            /\ current_table_row = <<>>
            /\ current_cell_content = <<>>

(***************************************************************************)
(* C24: every next_slide or prev_slide that changes current_slide sets     *)
(* scroll_offset to 0, so after a slide change the slide is shown from its *)
(* first line.                                                             *)
(***************************************************************************)
C24_SlideChangeResetsScroll ==
    [][(pc = "present" /\ current_slide' # current_slide) => scroll_offset' = 0]_vars
\* next_slide has left a slide of several lines, which could be scrolled
C24_Witness ==
    /\ pc = "present" /\ op = "next_slide"
    /\ current_slide > 0 /\ scroll_offset = 0
    /\ Len(slides[current_slide]) > 1

(***************************************************************************)
(* C25: after any stream every slide of the deck has at least one line and *)
(* no slide starts with an empty spacing line (a line of zero runs); the   *)
(* same holds of the slide being built.                                    *)
(***************************************************************************)
C25_NoLeadingSpacing ==
    /\ \A s \in 1..Len(slides) : slides[s] # <<>> /\ slides[s][1] # <<>>
    /\ current_slide_lines # <<>> => current_slide_lines[1] # <<>>
\* an empty code block opens the document, a paragraph follows: the deck is
\* one slide that begins with the paragraph's line
C25_Witness ==
    /\ pc = "present" /\ Len(toks) > 2
    /\ toks[1].k = "StartCodeBlock" /\ toks[2].k = "EndCodeBlock"
    /\ Len(slides) = 1 /\ slides[1] # PlaceholderSlide
    /\ slides[1][Len(slides[1])] = <<>>

(***************************************************************************)
(* C26: every slide and every line is reachable by navigation: repeating   *)
(* next_slide eventually reaches the last slide, repeating prev_slide      *)
(* eventually reaches slide 0, and repeating scroll_down eventually        *)
(* reaches scroll_offset = line count - 1 and then stays there.            *)
(***************************************************************************)
C26_NavigationReaches ==
    /\ <>[](op = "next_slide") => <>[](current_slide = Len(slides) - 1)
    /\ <>[](op = "prev_slide") => <>[](current_slide = 0)
    /\ <>[](op = "scroll_down")
         => <>[](pc = "present" /\ scroll_offset = Len(slides[current_slide + 1]) - 1)
\* next_slide has reached the last of three slides, a slide of several lines
C26_Witness ==
    /\ pc = "present" /\ op = "next_slide"
    /\ Len(slides) = 3 /\ current_slide = 2
    /\ Len(slides[3]) > 1

====
